---- MODULE Spec2Model ----
(***************************************************************************)
(* Directed weighted graph of src/config/Graph.js: the adjacency-list      *)
(* object, addVertex/addEdge and the analyses that read it.                *)
(***************************************************************************)
EXTENDS Integers, Sequences, FiniteSets, TLC

\* ------------------------------------------------------------------ bounds
\* Largest number of edges a modelled graph holds.
MaxEdges == 3
\* The same for the graphs the centrality is computed on.
MaxEdgesCentrality == 4
\* The same for the graphs on which every single addVertex and addEdge step
\* is compared with its contract.
MaxEdgesMutators == 2
\* Iterations of dijkstra's extraction loop that are followed.
MaxIterations == 10

\* ------------------------------------------------------------- identifiers
\* Ordinary vertex identifiers.
Names == {"a", "b", "c"}

\* Identifiers that name a function every plain JS object inherits from
\* Object.prototype ("constructor", "toString", "valueOf", "hasOwnProperty",
\* ...): a lookup yields that function and an assignment creates an own
\* property.  "constructor" stands for these functions only.  The accessor
\* "__proto__", whose assignments of numbers and strings are dropped, behaves
\* differently in bfs and getInDegrees and is not among the identifiers
\* modelled.
ObjectPrototypeNames == {"constructor"}

Ids == Names \cup ObjectPrototypeNames

CentralityNames == Names \cup {"d"}

\* Edge weights passed to addEdge.
DefaultWeight == 1
Weights == {DefaultWeight, 4}
\* addEdge takes any number as weight: negative ones too.
SignedWeights == {-2, -1, DefaultWeight}

\* ------------------------------------------------------------------- state
VARIABLES
    adjacencyList,  \* own properties of this.adjacencyList: key -> Seq(edge)
    keys,           \* the own keys in insertion order (JS enumeration order)
    call,           \* the last call made, <<operation, arguments...>>
    outcome         \* how that call ended: [kind, value]

vars == <<adjacencyList, keys, call, outcome>>

Undefined == "undefined"
Null == "null"

Return(v) == [kind |-> "return", value |-> v]
Throw(e) == [kind |-> "throw", value |-> e]

SelfLoopError == "Error: Invalid edge: self-loops not allowed."
DuplicateError == "Error: Invalid edge: duplicate edge not allowed."
TypeError == "TypeError"

\* ---------------------------------------------------------- object lookups
\* this.adjacencyList[v] is an array exactly for the own keys.
HasOwn(al, v) == v \in DOMAIN al

\* this.adjacencyList[v] is truthy: an own array, or a function inherited
\* from Object.prototype (adjacencyList is a plain {}).
Truthy(al, v) == HasOwn(al, v) \/ v \in ObjectPrototypeNames

Edge(t, w) == [node |-> t, weight |-> w]

\* The function al extended with key v |-> val.
Put(al, v, val) == [k \in DOMAIN al \cup {v} |-> IF k = v THEN val ELSE al[k]]

\* delete al[v]: the function without key v, and the keys without v.
Delete(al, v) == [k \in DOMAIN al \ {v} |-> al[k]]
DeleteKey(ks, v) == SelectSeq(ks, LAMBDA k : k # v)

Targets(al, v) == {al[v][i].node : i \in 1..Len(al[v])}

\* The elements of a sequence, as a set.
Nodes(p) == {p[i] : i \in 1..Len(p)}

RECURSIVE SumLen(_, _, _)
SumLen(al, ks, i) ==
    IF i > Len(ks) THEN 0 ELSE Len(al[ks[i]]) + SumLen(al, ks, i + 1)

NumEdges(al, ks) == SumLen(al, ks, 1)

\* ------------------------------------------------------------ construction
\* Mutant of addVertex: the edge list is assigned without the existence test.
addVertexReset(al, ks, v) ==
    <<Put(al, v, <<>>), IF HasOwn(al, v) THEN ks ELSE Append(ks, v)>>

\* Graph.addVertex: the graph after the call, as <<adjacencyList, keys>>.
addVertex(al, ks, v) ==
    IF ~Truthy(al, v)
    THEN <<Put(al, v, <<>>), Append(ks, v)>>
    ELSE <<al, ks>>

\* Mutant of addEdge: the edge is pushed to both endpoints' lists, as for an
\* undirected graph.
addEdgeBothWays(al, ks, vertex1, vertex2, weight) ==
    LET g1 == addVertex(al, ks, vertex1)
        g2 == addVertex(g1[1], g1[2], vertex2)
        al2 == g2[1]
        ks2 == g2[2]
    IN  IF vertex1 = vertex2
        THEN <<al2, ks2, Throw(SelfLoopError)>>
        ELSE IF ~HasOwn(al2, vertex1)
        THEN <<al2, ks2, Throw(TypeError)>>
        ELSE IF vertex2 \in Targets(al2, vertex1)
        THEN <<al2, ks2, Throw(DuplicateError)>>
        ELSE <<[k \in DOMAIN al2 |->
                   IF k = vertex1 THEN Append(al2[k], Edge(vertex2, weight))
                   ELSE IF k = vertex2 THEN Append(al2[k], Edge(vertex1, weight))
                   ELSE al2[k]],
               ks2, Return(Undefined)>>

\* Graph.addEdge: <<adjacencyList, keys, outcome>> after the call.
addEdge(al, ks, vertex1, vertex2, weight) ==
    LET g1 == addVertex(al, ks, vertex1)
        g2 == addVertex(g1[1], g1[2], vertex2)
        al2 == g2[1]
        ks2 == g2[2]
    IN  IF vertex1 = vertex2
        THEN <<al2, ks2, Throw(SelfLoopError)>>
        ELSE IF ~HasOwn(al2, vertex1)
        THEN \* an inherited member has no .some
             <<al2, ks2, Throw(TypeError)>>
        ELSE IF vertex2 \in Targets(al2, vertex1)
        THEN <<al2, ks2, Throw(DuplicateError)>>
        ELSE <<[al2 EXCEPT ![vertex1] = Append(@, Edge(vertex2, weight))],
               ks2, Return(Undefined)>>

Init ==
    /\ adjacencyList = <<>>
    /\ keys = <<>>
    /\ call = <<"new">>
    /\ outcome = Return(Undefined)

AddVertex(v) ==
    \E g \in {addVertex(adjacencyList, keys, v)} :
        /\ adjacencyList' = g[1]
        /\ keys' = g[2]
        /\ call' = <<"addVertex">>
        /\ outcome' = Return(Undefined)

\* (\E g \in {e} binds g to the value of e, computed once.)
\* A call that would add an edge is made only below the cap; a failing call
\* is made in every state.
AddEdge(s, t, w, cap) ==
    \E g \in {addEdge(adjacencyList, keys, s, t, w)} :
        /\ g[3].kind = "return" => NumEdges(adjacencyList, keys) < cap
        /\ adjacencyList' = g[1]
        /\ keys' = g[2]
        /\ call' = <<"addEdge">>
        /\ outcome' = g[3]

\* The graph is built by any sequence of addVertex and addEdge calls.
Build(ids, weights, cap) ==
    \/ \E v \in ids : AddVertex(v)
    \/ \E s, t \in ids, w \in weights : AddEdge(s, t, w, cap)

\* --------------------------------------------------------------------- bfs
\* What a lookup of an inherited Object.prototype function yields: an object
\* that is truthy, not null, not iterable and no vertex identifier.
InheritedMember == "[inherited member]"

\* The for...of over adjacencyList[current] in bfs, from edge i on.
\* st = [queue, visited, levels, parent]; visited keeps insertion order.
RECURSIVE bfsNeighbors(_, _, _, _)
bfsNeighbors(edges, i, current, st) ==
    IF i > Len(edges) THEN st
    ELSE LET n == edges[i].node
         IN  IF n \in DOMAIN st.levels
             THEN bfsNeighbors(edges, i + 1, current, st)
             ELSE bfsNeighbors(edges, i + 1, current,
                      [queue |-> Append(st.queue, n),
                       visited |-> Append(st.visited, n),
                       levels |-> Put(st.levels, n, st.levels[current] + 1),
                       parent |-> Put(st.parent, n, current)])

\* The while loop of bfs; ends with [threw |-> BOOLEAN, st].
RECURSIVE bfsLoop(_, _, _)
bfsLoop(al, destination, st) ==
    IF st.queue = <<>> THEN [threw |-> FALSE, st |-> st]
    ELSE LET current == Head(st.queue)
             shifted == [st EXCEPT !.queue = Tail(st.queue)]
         IN  IF current = destination THEN [threw |-> FALSE, st |-> shifted]
             ELSE IF ~HasOwn(al, current)
             THEN \* for...of over undefined or over an inherited member
                  [threw |-> TRUE, st |-> shifted]
             ELSE bfsLoop(al, destination,
                          bfsNeighbors(al[current], 1, current, shifted))

\* parent[curr] ?? null on the plain object parent.
bfsParentOf(parent, curr) ==
    IF curr \in DOMAIN parent THEN parent[curr]
    ELSE IF curr \in ObjectPrototypeNames THEN InheritedMember
    ELSE Null

\* The path reconstruction loop of bfs: unshift curr until curr is null.
RECURSIVE bfsChain(_, _, _)
bfsChain(parent, curr, path) ==
    IF curr = Null THEN path
    ELSE bfsChain(parent, bfsParentOf(parent, curr), <<curr>> \o path)

\* Graph.bfs(start, destination), destination = Null when not given.
bfs(al, start, destination) ==
    LET st0 == [queue |-> <<start>>,
                visited |-> <<start>>,
                levels |-> Put(<<>>, start, 0),
                parent |-> Put(<<>>, start, Null)]
        run == bfsLoop(al, destination, st0)
        chain == bfsChain(run.st.parent, destination, <<>>)
        path == IF destination # Null
                THEN (IF chain[1] # start THEN <<>> ELSE chain)
                ELSE run.st.visited
    IN  IF run.threw THEN Throw(TypeError)
        ELSE Return([path |-> path, levels |-> run.st.levels])

Bfs(start, destination) ==
    /\ call' = <<"bfs", start, destination>>
    /\ outcome' = bfs(adjacencyList, start, destination)
    /\ UNCHANGED <<adjacencyList, keys>>

\* ---------------------------------------------------------------- dijkstra
\* A tentative distance: Infinity, or the number n as <<n>>.
Infinity == <<>>
Num(n) == <<n>>

\* a < b on distances (Infinity < Infinity is false).
Less(a, b) == a # Infinity /\ (b = Infinity \/ a[1] < b[1])

\* dist + weight.
Plus(d, w) == IF d = Infinity THEN Infinity ELSE Num(d[1] + w)

\* A loop that cannot end.
Hang == [kind |-> "hang", value |-> Undefined]
\* A loop that has not ended within the iterations that are followed.
Running == [kind |-> "running", value |-> Undefined]

\* Map.set(k, d) on a Map kept as a sequence of <<key, value>> entries in
\* insertion order: an existing key keeps its place, a new one goes last.
pqSet(pq, k, d) ==
    IF \E i \in 1..Len(pq) : pq[i][1] = k
    THEN [i \in 1..Len(pq) |-> IF pq[i][1] = k THEN <<k, d>> ELSE pq[i]]
    ELSE Append(pq, <<k, d>>)

\* Map.delete(k).
pqDelete(pq, k) == SelectSeq(pq, LAMBDA e : e[1] # k)

\* Mutant of pqReduce: the first entry of the frontier is extracted, whatever
\* its tentative distance (a FIFO frontier instead of a priority frontier).
pqReduceFirst(pq, i, a) == pq[1]

\* [...pq.entries()].reduce((a, b) => a[1] < b[1] ? a : b), from entry i on.
RECURSIVE pqReduce(_, _, _)
pqReduce(pq, i, a) ==
    IF i > Len(pq) THEN a
    ELSE pqReduce(pq, i + 1, IF Less(a[2], pq[i][2]) THEN a ELSE pq[i])

\* The for...in initialisation of dijkstra, from key i on.
RECURSIVE dijkstraInit(_, _, _)
dijkstraInit(ks, i, ds) ==
    IF i > Len(ks) THEN ds
    ELSE dijkstraInit(ks, i + 1,
             [distances |-> Put(ds.distances, ks[i], Infinity),
              prev |-> Put(ds.prev, ks[i], Null),
              pq |-> pqSet(ds.pq, ks[i], Infinity)])

\* alt < distances[node] on the plain object distances: a missing or an
\* inherited member compares as NaN, which is never greater.
dijkstraImproves(distances, node, alt) ==
    node \in DOMAIN distances /\ Less(alt, distances[node])

\* The relaxation for...of over adjacencyList[current], from edge i on.
RECURSIVE dijkstraRelax(_, _, _, _, _)
dijkstraRelax(edges, i, current, dist, ds) ==
    IF i > Len(edges) THEN ds
    ELSE LET n == edges[i].node
             alt == Plus(dist, edges[i].weight)
         IN  IF dijkstraImproves(ds.distances, n, alt)
             THEN dijkstraRelax(edges, i + 1, current, dist,
                      [distances |-> Put(ds.distances, n, alt),
                       prev |-> Put(ds.prev, n, current),
                       pq |-> pqSet(ds.pq, n, alt)])
             ELSE dijkstraRelax(edges, i + 1, current, dist, ds)

\* One iteration of the while (pq.size > 0) loop, for a non-empty pq:
\* [status |-> "break" | "throw" | "continue", ds].
dijkstraIteration(al, destination, ds) ==
    LET entry == pqReduce(ds.pq, 2, ds.pq[1])
        current == entry[1]
        dist == entry[2]
        popped == [ds EXCEPT !.pq = pqDelete(ds.pq, current)]
    IN  IF current = destination THEN [status |-> "break", ds |-> popped]
        ELSE IF ~HasOwn(al, current)
        THEN [status |-> "throw", ds |-> popped]
        ELSE [status |-> "continue",
              ds |-> dijkstraRelax(al[current], 1, current, dist, popped)]

\* The while (pq.size > 0) loop, followed for at most left iterations:
\* status "running" when it has not ended by then.
RECURSIVE dijkstraLoop(_, _, _, _)
dijkstraLoop(al, destination, ds, left) ==
    IF ds.pq = <<>> THEN [status |-> "break", ds |-> ds]
    ELSE IF left = 0 THEN [status |-> "running", ds |-> ds]
    ELSE LET it == dijkstraIteration(al, destination, ds)
         IN  IF it.status = "continue"
             THEN dijkstraLoop(al, destination, it.ds, left - 1)
             ELSE it

\* The path loop of dijkstra: while (curr !== null) unshift curr and follow
\* prev[curr].  prev[curr] of a key that prev does not own is undefined or
\* an inherited member, never null, and from there on every prev[curr] is
\* undefined: the loop does not end.  Nor does it end on a cycle of prev.
RECURSIVE dijkstraChain(_, _, _)
dijkstraChain(prev, curr, path) ==
    IF curr = Null THEN Return(path)
    ELSE IF curr \notin DOMAIN prev THEN Hang
    ELSE IF \E i \in 1..Len(path) : path[i] = curr THEN Hang
    ELSE dijkstraChain(prev, prev[curr], <<curr>> \o path)

\* Graph.dijkstra(start, destination).
dijkstra(al, ks, start, destination) ==
    LET ds0 == dijkstraInit(ks, 1, [distances |-> <<>>, prev |-> <<>>, pq |-> <<>>])
        ds1 == [distances |-> Put(ds0.distances, start, Num(0)),
                prev |-> ds0.prev,
                pq |-> pqSet(ds0.pq, start, Num(0))]
        run == dijkstraLoop(al, destination, ds1, MaxIterations)
        chain == dijkstraChain(run.ds.prev, destination, <<>>)
    IN  IF run.status = "throw" THEN Throw(TypeError)
        ELSE IF run.status = "running" THEN Running
        ELSE IF chain.kind # "return" THEN chain
        ELSE IF chain.value[1] # start THEN Return(<<>>)
        ELSE chain

\* Mutant of Dijkstra: the extracted start is deleted from the adjacency
\* list instead of from the frontier.
DijkstraDeleting(start, destination) ==
    /\ call' = <<"dijkstra", start, destination>>
    /\ outcome' = dijkstra(adjacencyList, keys, start, destination)
    /\ adjacencyList' = Delete(adjacencyList, start)
    /\ keys' = DeleteKey(keys, start)

Dijkstra(start, destination) ==
    /\ call' = <<"dijkstra", start, destination>>
    /\ outcome' = dijkstra(adjacencyList, keys, start, destination)
    /\ UNCHANGED <<adjacencyList, keys>>

\* --------------------------------------------------------- topologicalSort
\* dfs(node) of topologicalSort and its for...of from edge i on.
\* ts = [threw, visited, stack].
RECURSIVE topoDfs(_, _, _)
RECURSIVE topoNeighbors(_, _, _, _)
topoNeighbors(al, edges, i, ts) ==
    IF ts.threw \/ i > Len(edges) THEN ts
    ELSE IF edges[i].node \in ts.visited
    THEN topoNeighbors(al, edges, i + 1, ts)
    ELSE topoNeighbors(al, edges, i + 1, topoDfs(al, edges[i].node, ts))

topoDfs(al, node, ts) ==
    LET entered == [ts EXCEPT !.visited = @ \cup {node}]
    IN  IF ~HasOwn(al, node)
        THEN \* for...of over an inherited member
             [entered EXCEPT !.threw = TRUE]
        ELSE LET after == topoNeighbors(al, al[node], 1, entered)
             IN  IF after.threw THEN after
                 ELSE [after EXCEPT !.stack = Append(@, node)]

\* The for...in over the keys, from key i on.
RECURSIVE topoRoots(_, _, _, _)
topoRoots(al, ks, i, ts) ==
    IF ts.threw \/ i > Len(ks) THEN ts
    ELSE IF ks[i] \in ts.visited THEN topoRoots(al, ks, i + 1, ts)
    ELSE topoRoots(al, ks, i + 1, topoDfs(al, ks[i], ts))

Reverse(q) == [i \in 1..Len(q) |-> q[Len(q) + 1 - i]]

\* Graph.topologicalSort().
topologicalSort(al, ks) ==
    LET ts == topoRoots(al, ks, 1, [threw |-> FALSE, visited |-> {}, stack |-> <<>>])
    IN  IF ts.threw THEN Throw(TypeError) ELSE Return(Reverse(ts.stack))

TopologicalSort ==
    /\ call' = <<"topologicalSort">>
    /\ outcome' = topologicalSort(adjacencyList, keys)
    /\ UNCHANGED <<adjacencyList, keys>>

\* ---------------------------------------------------------------- allPaths
\* The list dfs iterates: this.adjacencyList[node] || [].  An inherited
\* member is truthy and not iterable.
RECURSIVE allPathsDfs(_, _, _, _, _)
RECURSIVE allPathsNeighbors(_, _, _, _, _, _)
\* The for...of of dfs from edge i on.  visited holds exactly the nodes of
\* path (both grow on entry and shrink on exit).  ap = [threw, results].
allPathsNeighbors(al, end, edges, i, path, ap) ==
    IF ap.threw \/ i > Len(edges) THEN ap
    ELSE IF edges[i].node \in Nodes(path)
    THEN allPathsNeighbors(al, end, edges, i + 1, path, ap)
    ELSE allPathsNeighbors(al, end, edges, i + 1, path,
             allPathsDfs(al, end, edges[i].node, path, ap))

\* dfs(node, path) of allPaths.
allPathsDfs(al, end, node, path, ap) ==
    LET pushed == Append(path, node)
    IN  IF node = end THEN [ap EXCEPT !.results = Append(@, pushed)]
        ELSE IF HasOwn(al, node)
        THEN allPathsNeighbors(al, end, al[node], 1, pushed, ap)
        ELSE IF Truthy(al, node) THEN [ap EXCEPT !.threw = TRUE]
        ELSE ap

\* Graph.allPaths(start, end).
allPaths(al, start, end) ==
    LET ap == allPathsDfs(al, end, start, <<>>, [threw |-> FALSE, results |-> <<>>])
    IN  IF ap.threw THEN Throw(TypeError) ELSE Return(ap.results)

AllPaths(start, end) ==
    /\ call' = <<"allPaths", start, end>>
    /\ outcome' = allPaths(adjacencyList, start, end)
    /\ UNCHANGED <<adjacencyList, keys>>

\* ----------------------------------------------- betweennessCentralityDirected
\* The numbers of the centrality computation are kept as exact fractions
\* <<numerator, denominator>> in lowest terms.  The code computes them in
\* floating point, which is exact here: with at most four ordinary vertices
\* sigma is 1 or 2, so every quotient is a multiple of a power of 1/2.
RECURSIVE Gcd(_, _)
Gcd(x, y) == IF y = 0 THEN x ELSE Gcd(y, x % y)

Frac(n, d) == LET g == Gcd(n, d) IN IF n = 0 THEN <<0, 1>> ELSE <<n \div g, d \div g>>

FracAdd(x, y) == Frac(x[1] * y[2] + y[1] * x[2], x[2] * y[2])

FracMul(x, y) == Frac(x[1] * y[1], x[2] * y[2])

Zero == Frac(0, 1)
One == Frac(1, 1)

\* The forEach over adjacencyList[v] in the search loop, from edge i on.
\* bs = [stack, pred, sigma, dist, queue].  dist[w] of a node that dist does
\* not own is undefined or an inherited member: both comparisons are false.
RECURSIVE bcEdges(_, _, _, _)
bcEdges(edges, i, v, bs) ==
    IF i > Len(edges) THEN bs
    ELSE LET w == edges[i].node
         IN  IF w \notin DOMAIN bs.dist THEN bcEdges(edges, i + 1, v, bs)
             ELSE LET found == IF bs.dist[w] < 0
                               THEN [bs EXCEPT !.dist[w] = bs.dist[v] + 1,
                                               !.queue = Append(@, w)]
                               ELSE bs
                      counted == IF found.dist[w] = found.dist[v] + 1
                                 THEN [found EXCEPT !.sigma[w] = @ + found.sigma[v],
                                                    !.pred[w] = Append(@, v)]
                                 ELSE found
                  IN  bcEdges(edges, i + 1, v, counted)

\* The while (queue.length > 0) loop.
RECURSIVE bcSearch(_, _)
bcSearch(al, bs) ==
    IF bs.queue = <<>> THEN bs
    ELSE LET v == Head(bs.queue)
             shifted == [bs EXCEPT !.queue = Tail(@), !.stack = Append(@, v)]
         IN  bcSearch(al, bcEdges(al[v], 1, v, shifted))

\* pred[w].forEach: delta[v] += (sigma[v] / sigma[w]) * (1 + delta[w]).
RECURSIVE bcPreds(_, _, _, _, _)
bcPreds(preds, i, w, sigma, delta) ==
    IF i > Len(preds) THEN delta
    ELSE LET v == preds[i]
         IN  bcPreds(preds, i + 1, w, sigma,
                 [delta EXCEPT ![v] =
                     FracAdd(@, FracMul(Frac(sigma[v], sigma[w]),
                                        FracAdd(One, delta[w])))])

\* Mutant of bcCredit: the source's own dependency is added as well.
bcCreditSource(BC, w, s, delta) == [BC EXCEPT ![w] = FracAdd(@, delta[w])]

\* if (w !== s) BC[w] += delta[w].
bcCredit(BC, w, s, delta) ==
    IF w # s THEN [BC EXCEPT ![w] = FracAdd(@, delta[w])] ELSE BC

\* The while (stack.length > 0) loop; acc = [delta, BC].
RECURSIVE bcAccumulate(_, _, _, _, _)
bcAccumulate(stack, s, bs, delta, BC) ==
    IF stack = <<>> THEN BC
    ELSE LET w == stack[Len(stack)]
             d2 == bcPreds(bs.pred[w], 1, w, bs.sigma, delta)
         IN  bcAccumulate(SubSeq(stack, 1, Len(stack) - 1), s, bs, d2,
                          bcCredit(BC, w, s, d2))

\* The body of nodes.forEach((s) => ...): BC after source s.
bcSource(al, s, BC) ==
    LET nodes == DOMAIN al
        bs0 == [stack |-> <<>>,
                pred |-> [v \in nodes |-> <<>>],
                sigma |-> [v \in nodes |-> IF v = s THEN 1 ELSE 0],
                dist |-> [v \in nodes |-> IF v = s THEN 0 ELSE -1],
                queue |-> <<s>>]
        bs == bcSearch(al, bs0)
    IN  bcAccumulate(bs.stack, s, bs, [v \in nodes |-> Zero], BC)

RECURSIVE bcSources(_, _, _, _)
bcSources(al, ks, i, BC) ==
    IF i > Len(ks) THEN BC
    ELSE bcSources(al, ks, i + 1, bcSource(al, ks[i], BC))

\* Graph.betweennessCentralityDirected().
betweennessCentralityDirected(al, ks) ==
    Return(bcSources(al, ks, 1, [v \in DOMAIN al |-> Zero]))

BetweennessCentralityDirected ==
    /\ call' = <<"betweennessCentralityDirected">>
    /\ outcome' = betweennessCentralityDirected(adjacencyList, keys)
    /\ UNCHANGED <<adjacencyList, keys>>

\* ---------------------------------------------------------- isValidDigraph
\* A degree: the number n, or NaN.
Count(n) == [nan |-> FALSE, n |-> n]
NaN == [nan |-> TRUE, n |-> 0]

\* Graph.getOutDegrees: the length of every key's edge list, in key order.
getOutDegrees(al, ks) == [i \in 1..Len(ks) |-> Len(al[ks[i]])]

\* indeg[node]++ on the object indeg, kept as a sequence of <<key, degree>>
\* entries in insertion order.  For a node that is no key of indeg the old
\* value is undefined or an inherited function: the increment stores NaN
\* under a new own key, and NaN stays NaN.
indegIncrement(indeg, node) ==
    IF \E i \in 1..Len(indeg) : indeg[i][1] = node
    THEN [i \in 1..Len(indeg) |->
             IF indeg[i][1] = node /\ ~indeg[i][2].nan
             THEN <<node, Count(indeg[i][2].n + 1)>>
             ELSE indeg[i]]
    ELSE Append(indeg, <<node, NaN>>)

\* The forEach over adjacencyList[u] in getInDegrees, from edge i on.
RECURSIVE indegEdges(_, _, _)
indegEdges(edges, i, indeg) ==
    IF i > Len(edges) THEN indeg
    ELSE indegEdges(edges, i + 1, indegIncrement(indeg, edges[i].node))

\* The for...in over the keys in getInDegrees, from key i on.
RECURSIVE indegKeys(_, _, _, _)
indegKeys(al, ks, i, indeg) ==
    IF i > Len(ks) THEN indeg
    ELSE indegKeys(al, ks, i + 1, indegEdges(al[ks[i]], 1, indeg))

\* Graph.getInDegrees: Object.values(indeg).
getInDegrees(al, ks) ==
    LET zero == [i \in 1..Len(ks) |-> <<ks[i], Count(0)>>]
        indeg == indegKeys(al, ks, 1, zero)
    IN  [i \in 1..Len(indeg) |-> indeg[i][2]]

\* reduce((a, b) => a + b, 0) over numbers, from element i on.
RECURSIVE SumFrom(_, _)
SumFrom(d, i) == IF i > Len(d) THEN 0 ELSE d[i] + SumFrom(d, i + 1)

\* The same over the first k elements.
RECURSIVE SumFirst(_, _)
SumFirst(d, k) == IF k = 0 THEN 0 ELSE d[k] + SumFirst(d, k - 1)

\* The numbers of a sequence of degrees none of which is NaN.
Numbers(deg) == [i \in 1..Len(deg) |-> deg[i].n]

Min(a, b) == IF a < b THEN a ELSE b

\* [...outDeg].sort((a, b) => b - a): insertion of d[i] into the sorted
\* prefix, largest first.
RECURSIVE sortDescending(_, _, _)
sortDescending(d, i, sorted) ==
    IF i > Len(d) THEN sorted
    ELSE LET before == SelectSeq(sorted, LAMBDA x : x >= d[i])
             after == SelectSeq(sorted, LAMBDA x : x < d[i])
         IN  sortDescending(d, i + 1, before \o <<d[i]>> \o after)

\* The majorization loop of isValidDigraph, from k on: TRUE when no k has
\* lhs > rhs.
RECURSIVE majorization(_, _, _, _)
majorization(outSorted, inDeg, k, n) ==
    IF k > n THEN TRUE
    ELSE LET lhs == SumFirst(outSorted, k)
             rhs == SumFrom([i \in 1..Len(inDeg) |-> Min(k, inDeg[i])], 1)
         IN  IF lhs > rhs THEN FALSE
             ELSE majorization(outSorted, inDeg, k + 1, n)

\* Graph.isValidDigraph().
isValidDigraph(al, ks) ==
    LET outDeg == getOutDegrees(al, ks)
        degrees == getInDegrees(al, ks)
        n == Len(outDeg)
    IN  IF \E i \in 1..Len(degrees) : degrees[i].nan
        THEN \* the sum of inDeg is NaN, and x !== NaN for every x
             FALSE
        ELSE LET inDeg == Numbers(degrees)
             IN  IF SumFrom(outDeg, 1) # SumFrom(inDeg, 1) THEN FALSE
                 ELSE IF \/ \E i \in 1..n : outDeg[i] < 0 \/ outDeg[i] >= n
                         \/ \E i \in 1..Len(inDeg) : inDeg[i] < 0 \/ inDeg[i] >= n
                 THEN FALSE
                 ELSE majorization(sortDescending(outDeg, 1, <<>>), inDeg, 1, n)

IsValidDigraph ==
    /\ call' = <<"isValidDigraph">>
    /\ outcome' = Return(isValidDigraph(adjacencyList, keys))
    /\ UNCHANGED <<adjacencyList, keys>>

\* ------------------------------------------- add-protein click handler
\* Number(w) || 1 for the text w after the colon of an item (undefined when
\* the item has no colon): no number and the number 0 give 1.
NumberOf == [t \in {"0", "1", "4"} |-> IF t = "0" THEN 0 ELSE IF t = "1" THEN 1 ELSE 4]
parseWeight(w) ==
    IF w \notin DOMAIN NumberOf THEN 1
    ELSE IF NumberOf[w] = 0 THEN 1
    ELSE NumberOf[w]

\* The forEach over the items of neighborsInput, from item i on: addEdge
\* with every error caught.  items[i] = <<neighbor, w>>.
RECURSIVE addProteinEdges(_, _, _, _, _)
addProteinEdges(al, ks, proteinName, items, i) ==
    IF i > Len(items) THEN <<al, ks>>
    ELSE LET g == addEdge(al, ks, proteinName, items[i][1],
                          parseWeight(items[i][2]))
         IN  addProteinEdges(g[1], g[2], proteinName, items, i + 1)

\* The handler for a non-empty proteinName: the graph after it.
addProtein(al, ks, proteinName, items) ==
    LET g1 == addVertex(al, ks, proteinName)
        g2 == addProteinEdges(g1[1], g1[2], proteinName, items, 1)
    IN  IF ~isValidDigraph(g2[1], g2[2])
        THEN <<Delete(g2[1], proteinName), DeleteKey(g2[2], proteinName)>>
        ELSE g2

\* A click is followed only while the edges it may add fit below the cap.
AddProtein(proteinName, items, cap) ==
    /\ NumEdges(adjacencyList, keys) + Len(items) <= cap
    /\ \E g \in {addProtein(adjacencyList, keys, proteinName, items)} :
          /\ adjacencyList' = g[1]
          /\ keys' = g[2]
    /\ call' = <<"addProtein">>
    /\ outcome' = Return(Undefined)

\* The graph is loaded by addEdge calls alone, before the first click.
LoadEdge(s, t, w, cap) ==
    /\ call[1] \in {"new", "addEdge"}
    /\ AddEdge(s, t, w, cap)

\* The neighbour lists typed in: up to two items, with no weight or "0".
WeightTexts == {Undefined, "0"}
Items(ids) ==
    {<<>>} \cup {<<(<<n, w>>)>> : n \in ids, w \in WeightTexts}
           \cup {<<(<<n1, Undefined>>), <<n2, w>>>> : n1, n2 \in ids, w \in WeightTexts}

\* The page: the graph is loaded, then proteins are added by clicks.
Page(ids) ==
    \/ \E s, t \in ids : LoadEdge(s, t, DefaultWeight, MaxEdges)
    \/ \E p \in ids, items \in Items(ids) : AddProtein(p, items, MaxEdges)

\* ---------------------------------------------------------- specifications
Next == Build(Ids, Weights, MaxEdges)

Spec == Init /\ [][Next]_vars

\* bfs ignores weights: the graph is built with the default weight.
NextBfs ==
    \/ Build(Ids, {DefaultWeight}, MaxEdges)
    \/ \E s \in Ids, d \in Ids \cup {Null} : Bfs(s, d)

SpecBfs == Init /\ [][NextBfs]_vars

\* The three searches that take a start identifier, on unweighted graphs.
NextSearch ==
    \/ Build(Ids, {DefaultWeight}, MaxEdges)
    \/ \E s \in Ids, d \in Ids \cup {Null} : Bfs(s, d)
    \/ \E s, d \in Ids : Dijkstra(s, d)
    \/ \E s, e \in Ids : AllPaths(s, e)

SpecSearch == Init /\ [][NextSearch]_vars

NextTopo ==
    \/ Build(Ids, {DefaultWeight}, MaxEdges)
    \/ TopologicalSort

SpecTopo == Init /\ [][NextTopo]_vars

NextPaths ==
    \/ Build(Ids, {DefaultWeight}, MaxEdges)
    \/ \E s, e \in Ids : AllPaths(s, e)

SpecPaths == Init /\ [][NextPaths]_vars

\* Centrality on unweighted graphs over four ordinary identifiers, so that
\* two shortest paths between a pair exist (a diamond).  The graph is loaded
\* by addEdge calls alone, as script.js loads it; a failed self-loop call
\* leaves an isolated vertex.
NextCentrality ==
    \/ \E s, t \in CentralityNames : AddEdge(s, t, DefaultWeight, MaxEdgesCentrality)
    \/ BetweennessCentralityDirected

SpecCentrality == Init /\ [][NextCentrality]_vars

\* dijkstra is run on graphs whose weights are all positive (Weights).
NextDijkstra ==
    \/ Build(Names, Weights, MaxEdges)
    \/ \E s, d \in Names : Dijkstra(s, d)

SpecDijkstra == Init /\ [][NextDijkstra]_vars

\* dijkstra and the centrality on weighted graphs that may hold edges to an
\* inherited name (targets that are no keys).
NextDangling ==
    \/ Build(Ids, Weights, MaxEdges)
    \/ \E s, d \in Ids : Dijkstra(s, d)
    \/ BetweennessCentralityDirected

SpecDangling == Init /\ [][NextDangling]_vars

\* addVertex and addEdge alone, step by step.
NextMutators == Build(Ids, Weights, MaxEdgesMutators)

SpecMutators == Init /\ [][NextMutators]_vars

\* dijkstra on graphs with negative weights.
NextSigned ==
    \/ Build(Names, SignedWeights, MaxEdges)
    \/ \E s, d \in Names : Dijkstra(s, d)

SpecSigned == Init /\ [][NextSigned]_vars

\* Every analysis, on unweighted graphs that may hold dangling edges.  The
\* start and destination arguments are two ordinary identifiers and the
\* inherited one; the graphs are over all of Ids.
Arguments == {"a", "b"} \cup ObjectPrototypeNames
NextAnalyses ==
    \/ Build(Ids, {DefaultWeight}, MaxEdges)
    \/ \E s \in Arguments, d \in Arguments \cup {Null} : Bfs(s, d)
    \/ \E s, d \in Arguments : Dijkstra(s, d)
    \/ TopologicalSort
    \/ IsValidDigraph
    \/ BetweennessCentralityDirected
    \/ \E s, e \in Arguments : AllPaths(s, e)

SpecAnalyses == Init /\ [][NextAnalyses]_vars

\* The graph is built by addVertex and addEdge calls and validated.
NextValid ==
    \/ Build(Ids, {DefaultWeight}, MaxEdges)
    \/ IsValidDigraph

SpecValid == Init /\ [][NextValid]_vars

NextProtein == Page(Ids)

SpecProtein == Init /\ [][NextProtein]_vars

\* The page with ordinary identifiers alone.
NextProteinOrdinary == Page(Names)

SpecProteinOrdinary == Init /\ [][NextProteinOrdinary]_vars

\* --------------------------------------------------------- graph predicates
NoSelfLoop(al) == \A u \in DOMAIN al : u \notin Targets(al, u)

NoDuplicateEdge(al) ==
    \A u \in DOMAIN al : \A i, j \in 1..Len(al[u]) :
        al[u][i].node = al[u][j].node => i = j

\* Every edge target is a key of the vertex mapping (sources are keys by
\* construction of the mapping).
TargetsAreKeys(al) == \A u \in DOMAIN al : Targets(al, u) \subseteq DOMAIN al

\* ------------------------------------------------- paths (reference notions)
\* Targets of the edges leaving u (none when u is no key).
Out(al, u) == IF u \in DOMAIN al THEN Targets(al, u) ELSE {}

\* R and the targets of the edges leaving its nodes.
Grow(al, R) == R \cup UNION {Out(al, u) : u \in R}

\* Nodes that a walk of at most n edges from s ends at.
RECURSIVE ReachIn(_, _, _)
ReachIn(al, s, n) == IF n = 0 THEN {s} ELSE Grow(al, ReachIn(al, s, n - 1))

\* Nodes that a walk from s ends at.
Reach(al, s) == ReachIn(al, s, Cardinality(DOMAIN al) + 1)

\* Minimum number of edges on a walk from s to t, for t in Reach(al, s).
HopDist(al, s, t) ==
    CHOOSE n \in 0..(Cardinality(DOMAIN al) + 1) :
        /\ t \in ReachIn(al, s, n)
        /\ \A m \in 0..(n - 1) : t \notin ReachIn(al, s, m)

\* p is a non-empty sequence that follows an edge between consecutive nodes.
IsPath(al, p) ==
    /\ Len(p) >= 1
    /\ \A i \in 1..(Len(p) - 1) : p[i + 1] \in Out(al, p[i])

\* The simple paths from s: those of P and every extension of them by edges.
RECURSIVE Extensions(_, _)
Extensions(al, P) ==
    IF P = {} THEN {}
    ELSE P \cup Extensions(al,
             UNION {{Append(p, v) : v \in Out(al, p[Len(p)]) \ Nodes(p)} : p \in P})

\* All simple paths from s to t along the edges of the graph.
SimplePaths(al, s, t) == {p \in Extensions(al, {<<s>>}) : p[Len(p)] = t}

EdgeWeight(al, u, v) ==
    al[u][CHOOSE i \in 1..Len(al[u]) : al[u][i].node = v].weight

RECURSIVE PathWeight(_, _)
PathWeight(al, p) ==
    IF Len(p) <= 1 THEN 0
    ELSE EdgeWeight(al, p[1], p[2]) + PathWeight(al, Tail(p))

\* Minimum total weight of a path from s to t, for t in Reach(al, s) and
\* non-negative weights (a minimum-weight walk is then a simple path).
MinWeight(al, s, t) ==
    LET W == {PathWeight(al, p) : p \in SimplePaths(al, s, t)}
    IN  CHOOSE w \in W : \A x \in W : w <= x

\* C1: whenever addEdge fails with the self-loop or the duplicate-edge error,
\* the vertex set and every outgoing-edge sequence are as before the call.
C1_FailedAddEdgeLeavesGraph ==
    [][(/\ call'[1] = "addEdge"
        /\ outcome'.kind = "throw"
        /\ outcome'.value \in {SelfLoopError, DuplicateError})
       => (adjacencyList' = adjacencyList /\ keys' = keys)]_vars

\* C2: in every state reached by addVertex and addEdge calls there is no
\* self-loop, at most one edge per ordered (source, target) pair, and every
\* edge's source and target are keys of the vertex mapping.
C2_GraphInvariants ==
    /\ NoSelfLoop(adjacencyList)
    /\ NoDuplicateEdge(adjacencyList)
    /\ TargetsAreKeys(adjacencyList)

\* The part of C2 the code keeps: no self-loop and no duplicate edge.
NoSelfLoopNoDuplicate ==
    NoSelfLoop(adjacencyList) /\ NoDuplicateEdge(adjacencyList)

\* Every dangling target is the name of a function inherited from
\* Object.prototype.
DanglingTargetsAreInherited ==
    \A u \in DOMAIN adjacencyList :
        Targets(adjacencyList, u) \ DOMAIN adjacencyList \subseteq ObjectPrototypeNames

\* C3: when the graph holds no path from a start vertex to destination (an
\* unreachable vertex, or no vertex at all), dijkstra returns the empty
\* sequence.
C3_DijkstraNoPathReturnsEmpty ==
    (/\ call[1] = "dijkstra"
     /\ call[2] \in DOMAIN adjacencyList
     /\ call[3] \notin Reach(adjacencyList, call[2]))
    => outcome = Return(<<>>)

\* The part of C3 the code keeps: an unreachable destination that is a
\* vertex yields the empty sequence.
DijkstraUnreachableVertexReturnsEmpty ==
    (/\ call[1] = "dijkstra"
     /\ call[2] \in DOMAIN adjacencyList
     /\ call[3] \in DOMAIN adjacencyList
     /\ call[3] \notin Reach(adjacencyList, call[2]))
    => outcome = Return(<<>>)

\* C4: bfs, dijkstra and allPaths called with a start that is no vertex of
\* the graph do not raise: they return.
C4_UnknownStartDoesNotRaise ==
    (/\ call[1] \in {"bfs", "dijkstra", "allPaths"}
     /\ call[2] \notin DOMAIN adjacencyList)
    => outcome.kind = "return"

\* The part of C4 the code keeps: allPaths from an ordinary identifier that
\* is no vertex returns no path, or the one-node path when end = start.
AllPathsUnknownStartReturns ==
    (/\ call[1] = "allPaths"
     /\ call[2] \notin DOMAIN adjacencyList
     /\ call[2] \notin ObjectPrototypeNames)
    => outcome = Return(IF call[3] = call[2] THEN <<(<<call[2]>>)>> ELSE <<>>)

\* C5: with non-negative weights and destination reachable from start, both
\* vertices, dijkstra returns a path of the graph from start to destination
\* whose total weight is the minimum over all paths.
C5_DijkstraShortestPath ==
    (/\ call[1] = "dijkstra"
     /\ call[2] \in DOMAIN adjacencyList
     /\ call[3] \in DOMAIN adjacencyList
     /\ call[3] \in Reach(adjacencyList, call[2]))
    => /\ outcome.kind = "return"
       /\ LET p == outcome.value
          IN  /\ IsPath(adjacencyList, p)
              /\ p[1] = call[2]
              /\ p[Len(p)] = call[3]
              /\ PathWeight(adjacencyList, p) =
                     MinWeight(adjacencyList, call[2], call[3])

\* The example of C5: a->b(4), a->c(1), c->b(1) and dijkstra(a, b) has
\* returned [a, c, b], of weight 2, not the direct edge of weight 4.
C5_Witness ==
    /\ call = <<"dijkstra", "a", "b">>
    /\ DOMAIN adjacencyList = {"a", "b", "c"}
    /\ adjacencyList["a"] = <<Edge("b", 4), Edge("c", 1)>>
    /\ adjacencyList["c"] = <<Edge("b", 1)>>
    /\ outcome = Return(<<"a", "c", "b">>)

\* What C6 says of a bfs call that has returned.
BfsLevelsRight ==
    /\ outcome.kind = "return"
    /\ LET lv == outcome.value.levels
       IN  /\ call[3] = Null =>
                 DOMAIN lv = Reach(adjacencyList, call[2]) \cap DOMAIN adjacencyList
           /\ \A v \in DOMAIN lv : lv[v] = HopDist(adjacencyList, call[2], v)

\* C6: for every vertex start, bfs(start) returns levels whose keys are the
\* vertices reachable from start, each with its minimum number of edges from
\* start; with a destination, every level held is still that minimum.
C6_BfsLevels ==
    (call[1] = "bfs" /\ call[2] \in DOMAIN adjacencyList) => BfsLevelsRight

\* C6 on the graphs whose edge targets are all keys.
BfsLevelsOnClosedGraphs ==
    (/\ call[1] = "bfs"
     /\ call[2] \in DOMAIN adjacencyList
     /\ TargetsAreKeys(adjacencyList))
    => BfsLevelsRight

\* What C7 says of a bfs call with a destination that has returned.
BfsPathRight ==
    /\ outcome.kind = "return"
    /\ LET p == outcome.value.path
       IN  IF call[3] \in Reach(adjacencyList, call[2])
           THEN /\ IsPath(adjacencyList, p)
                /\ p[1] = call[2]
                /\ p[Len(p)] = call[3]
                /\ Len(p) - 1 = HopDist(adjacencyList, call[2], call[3])
           ELSE p = <<>>

\* C7: for vertices start and destination, bfs(start, destination).path is a
\* path of the graph from start to destination with the fewest edges when
\* destination is reachable, and the empty sequence when it is not.
C7_BfsPath ==
    (/\ call[1] = "bfs"
     /\ call[2] \in DOMAIN adjacencyList
     /\ call[3] \in DOMAIN adjacencyList)
    => BfsPathRight

\* C7 on the graphs whose edge targets are all keys.
BfsPathOnClosedGraphs ==
    (/\ call[1] = "bfs"
     /\ call[2] \in DOMAIN adjacencyList
     /\ call[3] \in DOMAIN adjacencyList
     /\ TargetsAreKeys(adjacencyList))
    => BfsPathRight

\* No vertex is reached from itself by one or more edges.
Acyclic(al) ==
    \A u \in DOMAIN al : u \notin UNION {Reach(al, v) : v \in Out(al, u)}

\* The position of v in the sequence q (0 when absent).
Pos(q, v) == IF v \in Nodes(q) THEN CHOOSE i \in 1..Len(q) : q[i] = v ELSE 0

\* What C8 says of a topologicalSort call.
TopologicalOrderRight ==
    /\ outcome.kind = "return"
    /\ LET q == outcome.value
       IN  /\ Nodes(q) = DOMAIN adjacencyList
           /\ Len(q) = Cardinality(DOMAIN adjacencyList)
           /\ \A u \in DOMAIN adjacencyList : \A v \in Out(adjacencyList, u) :
                  Pos(q, u) >= 1 /\ Pos(q, v) >= 1 /\ Pos(q, u) < Pos(q, v)

\* C8: on an acyclic graph topologicalSort returns every vertex exactly once,
\* with u strictly before v for every edge u->v.
C8_TopologicalOrder ==
    (call[1] = "topologicalSort" /\ Acyclic(adjacencyList))
    => TopologicalOrderRight

\* C8 on the graphs whose edge targets are all keys.
TopologicalOrderOnClosedGraphs ==
    (/\ call[1] = "topologicalSort"
     /\ Acyclic(adjacencyList)
     /\ TargetsAreKeys(adjacencyList))
    => TopologicalOrderRight

\* What C9 says of an allPaths call.
AllPathsRight ==
    /\ outcome.kind = "return"
    /\ Nodes(outcome.value) = SimplePaths(adjacencyList, call[2], call[3])
    /\ Len(outcome.value) = Cardinality(Nodes(outcome.value))

\* C9: for vertices start and end, allPaths returns exactly the simple paths
\* from start to end, each once.
C9_AllPathsExact ==
    (/\ call[1] = "allPaths"
     /\ call[2] \in DOMAIN adjacencyList
     /\ call[3] \in DOMAIN adjacencyList)
    => AllPathsRight

\* C9 on the graphs whose edge targets are all keys.
AllPathsOnClosedGraphs ==
    (/\ call[1] = "allPaths"
     /\ call[2] \in DOMAIN adjacencyList
     /\ call[3] \in DOMAIN adjacencyList
     /\ TargetsAreKeys(adjacencyList))
    => AllPathsRight

\* The paths of P with the fewest edges.
Shortest(P) == {p \in P : \A q \in P : Len(p) <= Len(q)}

\* The minimum-edge-count paths of every ordered pair (s, t) of vertices
\* (none when t is not reachable from s).
ShortestPathsAmong(al, from) ==
    [st \in (DOMAIN al) \X (DOMAIN al) |->
        Shortest({p \in from[st[1]] : p[Len(p)] = st[2]})]

ShortestPaths(al) ==
    ShortestPathsAmong(al, [s \in DOMAIN al |-> Extensions(al, {<<s>>})])

\* The fraction of the shortest paths SP that pass through w.
PairFraction(SP, w) ==
    Frac(Cardinality({p \in SP : w \in Nodes(p)}), Cardinality(SP))

RECURSIVE SumPairFractions(_, _, _)
SumPairFractions(sp, w, pairs) ==
    IF pairs = {} THEN Zero
    ELSE LET st == CHOOSE x \in pairs : TRUE
         IN  FracAdd(PairFraction(sp[st], w),
                     SumPairFractions(sp, w, pairs \ {st}))

\* Raw directed betweenness of w, given the shortest paths sp of every
\* connected pair: the sum over the ordered pairs (s, t) of vertices other
\* than w, t reachable from s, of the fraction of the minimum-edge-count
\* s-to-t paths that pass through w.
RawBetweenness(sp, w) ==
    SumPairFractions(sp, w,
        {st \in DOMAIN sp : st[1] # w /\ st[2] # w /\ sp[st] # {}})

\* C10: betweennessCentralityDirected gives every vertex its raw directed
\* betweenness, with no normalisation.
C10_RawDirectedBetweenness ==
    call[1] = "betweennessCentralityDirected"
    => /\ outcome.kind = "return"
       /\ DOMAIN outcome.value = DOMAIN adjacencyList
       /\ \E sp \in {ShortestPaths(adjacencyList)} :
              \A w \in DOMAIN adjacencyList :
                  outcome.value[w] = RawBetweenness(sp, w)

\* The example of C10: on the chain a->b->c the call has returned BC[b] = 1
\* and BC[a] = BC[c] = 0.
C10_Witness ==
    /\ call[1] = "betweennessCentralityDirected"
    /\ DOMAIN adjacencyList = {"a", "b", "c"}
    /\ adjacencyList["a"] = <<Edge("b", DefaultWeight)>>
    /\ adjacencyList["b"] = <<Edge("c", DefaultWeight)>>
    /\ adjacencyList["c"] = <<>>
    /\ outcome.value["a"] = Zero
    /\ outcome.value["b"] = One
    /\ outcome.value["c"] = Zero

\* A diamond a->b, a->c, b->d, c->d: b and c each carry half of the two
\* shortest paths from a to d.
DiamondCentrality ==
    /\ call[1] = "betweennessCentralityDirected"
    /\ DOMAIN adjacencyList = {"a", "b", "c", "d"}
    /\ Targets(adjacencyList, "a") = {"b", "c"}
    /\ Targets(adjacencyList, "b") = {"d"}
    /\ Targets(adjacencyList, "c") = {"d"}
    /\ outcome.value["b"] = Frac(1, 2)
    /\ outcome.value["c"] = Frac(1, 2)

\* ------------------------------------------------------------- mutators
\* The outgoing-edge sequence of k before a call: empty for a vertex the
\* call creates.
SequenceOf(al, k) == IF k \in DOMAIN al THEN al[k] ELSE <<>>

\* C11: addVertex is idempotent: after any call addVertex(v) a second call
\* changes nothing, and a call on a vertex that already exists (with or
\* without outgoing edges) leaves the vertex set and every outgoing-edge
\* sequence unchanged.
C11_AddVertexIdempotent ==
    [][\A v \in Ids :
          AddVertex(v) =>
              /\ addVertex(adjacencyList', keys', v) = <<adjacencyList', keys'>>
              /\ (v \in DOMAIN adjacencyList
                    => UNCHANGED <<adjacencyList, keys>>)]_vars

\* addVertex has been called on a vertex that exists and has an outgoing
\* edge: the keys are a, b with the edge a->b, and the last call is an
\* addVertex (one that had created a vertex would have put it last, after
\* the edge that targets it).
C11_Witness ==
    /\ call = <<"addVertex">>
    /\ keys = <<"b", "a">>
    /\ adjacencyList["b"] = <<Edge("a", 4)>>
    /\ adjacencyList["a"] = <<>>

\* C12: a successful addEdge(source, target, weight) appends exactly one
\* edge {target, weight} at the end of source's outgoing sequence, keeps the
\* earlier edges of source in their order, and leaves the outgoing sequence
\* of target and of every other vertex unchanged.
C12_AddEdgeAppends ==
    [][\A s, t \in Ids, w \in Weights :
          (/\ call' = <<"addEdge">>
           /\ outcome'.kind = "return"
           /\ AddEdge(s, t, w, MaxEdgesMutators)) =>
              /\ s \in DOMAIN adjacencyList'
              /\ adjacencyList'[s] =
                     Append(SequenceOf(adjacencyList, s), Edge(t, w))
              /\ \A k \in DOMAIN adjacencyList' \ {s} :
                     adjacencyList'[k] = SequenceOf(adjacencyList, k)]_vars

\* A successful addEdge has appended to a source that had an edge: a has the
\* edges to b then to c and the last call is a successful addEdge, so it is
\* the one that appended a->c behind a->b.
C12_Witness ==
    /\ call = <<"addEdge">>
    /\ outcome = Return(Undefined)
    /\ keys = <<"a", "b", "c">>
    /\ adjacencyList["a"] = <<Edge("b", DefaultWeight), Edge("c", 4)>>

\* ------------------------------------------------------------- analyses
Analyses ==
    {"bfs", "dijkstra", "topologicalSort", "isValidDigraph",
     "betweennessCentralityDirected", "allPaths"}

\* C13: the analyses are read-only: a call to bfs, dijkstra,
\* topologicalSort, isValidDigraph, betweennessCentralityDirected or allPaths
\* leaves the vertex set and every outgoing-edge sequence as before the call.
C13_AnalysesReadOnly ==
    [][call'[1] \in Analyses => UNCHANGED <<adjacencyList, keys>>]_vars

\* An analysis has run on a graph with three edges: topologicalSort on
\* a->b, a->c, b->c.
C13_Witness ==
    /\ call = <<"topologicalSort">>
    /\ keys = <<"a", "b", "c">>
    /\ adjacencyList["a"] = <<Edge("b", DefaultWeight), Edge("c", DefaultWeight)>>
    /\ adjacencyList["b"] = <<Edge("c", DefaultWeight)>>
    /\ outcome = Return(<<"a", "b", "c">>)

\* ------------------------------------------------- dijkstra, termination
\* A cycle of negative total weight.
NegativeCycle(al) ==
    \E u, v \in DOMAIN al :
        /\ u \in Out(al, v)
        /\ \E p \in SimplePaths(al, u, v) :
               PathWeight(al, p) + EdgeWeight(al, v, u) < 0

\* C14: dijkstra(start, destination) runs to completion for every pair of
\* vertices on every graph addEdge can build, negative weights and cycles
\* included: its loops end.  (A call whose extraction loop is still running
\* after MaxIterations iterations is not held against the claim here.)
C14_DijkstraCompletes ==
    (/\ call[1] = "dijkstra"
     /\ call[2] \in DOMAIN adjacencyList
     /\ call[3] \in DOMAIN adjacencyList)
    => outcome.kind # "hang"

\* The part of C14 the code keeps: without a cycle of negative weight the
\* call returns, within MaxIterations extractions.
DijkstraCompletesWithoutNegativeCycle ==
    (/\ call[1] = "dijkstra"
     /\ call[2] \in DOMAIN adjacencyList
     /\ call[3] \in DOMAIN adjacencyList
     /\ ~NegativeCycle(adjacencyList))
    => outcome.kind = "return"

\* The extraction loop is still running after MaxIterations iterations:
\* distances keep falling around a negative cycle while the destination is
\* never the smallest entry.
DijkstraExtractionEnds ==
    call[1] = "dijkstra" => outcome.kind # "running"

\* ------------------------------------------------------- isValidDigraph
\* C15: isValidDigraph() returns true in every state reached from the empty
\* graph by addVertex and addEdge calls, successful or failing.
C15_IsValidDigraphTrue ==
    call[1] = "isValidDigraph" => outcome = Return(TRUE)

\* The part of C15 the code keeps: true whenever every edge target is a key.
IsValidDigraphOnClosedGraphs ==
    (call[1] = "isValidDigraph" /\ TargetsAreKeys(adjacencyList))
    => outcome = Return(TRUE)

\* The degree conditions hold in every graph without self-loop or duplicate
\* edge whose targets are keys, validated or not.
ClosedGraphsAreValid ==
    TargetsAreKeys(adjacencyList) => isValidDigraph(adjacencyList, keys)

\* C16: a click of the add-protein handler on a graph in which every edge's
\* target is a key leaves every edge's target a key: the rollback deletion
\* never leaves an edge pointing at a removed vertex.
C16_HandlerKeepsTargets ==
    [][(call'[1] = "addProtein" /\ TargetsAreKeys(adjacencyList))
          => TargetsAreKeys(adjacencyList')]_vars

\* The part of C16 the code keeps: with ordinary identifiers alone the
\* validation never fails, so no click removes a key and every target stays
\* a key.
HandlerKeepsGraphOnOrdinaryNames ==
    [][call'[1] = "addProtein"
          => /\ DOMAIN adjacencyList \subseteq DOMAIN adjacencyList'
             /\ TargetsAreKeys(adjacencyList')]_vars

====
